---- MODULE Spec2Model ----
(***************************************************************************)
(* The file-based sandbox of docker/sandbox: the controller                *)
(* (file_sandbox_client.py), the worker daemon (secure_executor.py), the   *)
(* direct engine and the validation decision (sandbox_server.py) and the   *)
(* validator's entry point (ultra_secure_validator.py).                    *)
(*                                                                         *)
(* Strings that the code builds by formatting are sequences of fragments:  *)
(* concatenation is \o, the empty string is << >>.  A piece of source code *)
(* submitted for execution is a record of what the code under test reads   *)
(* from it: its length, whether it is blank, whether ast.parse accepts it, *)
(* the AST nodes the visitor meets and the number of regex hits.           *)
(***************************************************************************)
EXTENDS Integers, Sequences, FiniteSets, TLC

\* ------------------------------------------------------------------ bounds
NumCmds == 2        \* execute_code calls (one command id each)
NumWorkers == 2     \* worker daemons polling the same directories
MaxCrashes == 1     \* daemon crashes (each followed by a restart)
MaxCalls == 2       \* direct calls of each engine
MaxViol == 4        \* longest violation list given to the decision rule

\* ------------------------------------------------------- program constants
MaxCodeLen == 5000          \* sandbox_server.py:42
ClientMaxTimeout == 60      \* file_sandbox_client.py:41
ClientOverhead == 5         \* file_sandbox_client.py:58
ErrorExitCode == 1          \* secure_executor.py:321
TimeoutReturnCode == -9     \* sandbox_server.py:229
SpawnErrorReturnCode == -1  \* sandbox_server.py:236
Mode600 == 384              \* 0o600, secure_executor.py:310
Mode644 == 420              \* 0o644, file_sandbox_client.py:53
Http403 == 403              \* sandbox_server_old.py:1156
Http408 == 408              \* sandbox_server_old.py:1159
Http500 == 500              \* sandbox_server_old.py:1162
Http200 == 200              \* sandbox_server_old.py:1144

Ids == 1..NumCmds
Workers == 1..NumWorkers
Min(a, b) == IF a < b THEN a ELSE b

\* ------------------------------------------------------------- violations
Severities == {"CRITICAL", "HIGH", "MEDIUM"}

SecurityViolation(type, severity) == [type |-> type, severity |-> severity]

allowed_modules == {"math", "random", "datetime", "json", "numpy", "pandas"}

allowed_builtins == {"int", "float", "str", "bool", "list", "dict", "tuple", "set",
                     "abs", "min", "max", "sum", "round", "pow", "len", "ord", "chr",
                     "range", "enumerate", "zip", "type", "isinstance", "print"}

dangerous_attributes == {"__import__", "__builtins__", "__globals__", "__locals__",
                         "__dict__", "__class__", "__bases__", "__mro__",
                         "__subclasses__", "__code__", "__func__", "__closure__",
                         "__module__", "func_globals", "func_code", "gi_frame",
                         "gi_code", "__file__", "__path__", "__package__", "__spec__",
                         "__loader__", "__cached__", "__doc__", "__name__"}

\* the dunder attributes visit_Attribute lets through (line 185)
safe_dunders == {"__len__", "__str__", "__repr__", "__int__", "__float__"}

\* the part of dir(builtins) the samples use
builtin_names == allowed_builtins \cup {"eval", "exec", "compile", "__import__",
                                        "open", "getattr", "input", "globals",
                                        "vars", "dir"}

\* attr_name.startswith('__') and attr_name.endswith('__'), on the attribute
\* names the samples use
IsDunder(name) ==
    name \in {a \in dangerous_attributes : a \notin {"func_globals", "func_code",
                                                     "gi_frame", "gi_code"}}
             \cup safe_dunders \cup {"__init__", "__base__", "__getattribute__"}

\* One AST node, as the visitor of UltraSecureValidator sees it: the kind of
\* the node and the name the visitor reads from it (the top-level module of
\* an import, the id of a Name or of the Name a Call calls, the attr of an
\* Attribute or of the Attribute a MethodCall calls, the string constant of a
\* Subscript, the id of a Decorator, "bases" for a ClassDef with bases or
\* keywords).  A node of any other kind is only walked through.
visit(node) ==
    CASE node.kind = "Import" ->
           IF node.name \notin allowed_modules
           THEN << SecurityViolation("FORBIDDEN_IMPORT", "CRITICAL") >> ELSE << >>
      [] node.kind = "ImportFrom" ->
           IF node.name \notin allowed_modules
           THEN << SecurityViolation("FORBIDDEN_IMPORT", "CRITICAL") >> ELSE << >>
      [] node.kind = "ImportStar" ->
           (IF node.name \notin allowed_modules
            THEN << SecurityViolation("FORBIDDEN_IMPORT", "CRITICAL") >> ELSE << >>)
           \o << SecurityViolation("WILDCARD_IMPORT", "CRITICAL") >>
      [] node.kind = "Call" ->
           IF node.name \in {"eval", "exec", "compile", "__import__"}
           THEN << SecurityViolation("DANGEROUS_BUILTIN", "CRITICAL") >>
           ELSE IF node.name \in builtin_names /\ node.name \notin allowed_builtins
                THEN << SecurityViolation("FORBIDDEN_BUILTIN", "CRITICAL") >>
                ELSE << >>
      [] node.kind = "MethodCall" ->
           IF node.name \in {"__import__", "__getattribute__", "__setattr__",
                             "__delattr__"}
           THEN << SecurityViolation("DANGEROUS_METHOD", "CRITICAL") >> ELSE << >>
      [] node.kind = "Attribute" ->
           (IF node.name \in dangerous_attributes
            THEN << SecurityViolation("DANGEROUS_ATTRIBUTE", "CRITICAL") >> ELSE << >>)
           \o (IF IsDunder(node.name) /\ node.name \notin safe_dunders
               THEN << SecurityViolation("DUNDER_ACCESS", "CRITICAL") >> ELSE << >>)
      [] node.kind = "Subscript" ->
           IF node.name \in dangerous_attributes
           THEN << SecurityViolation("DANGEROUS_SUBSCRIPT", "CRITICAL") >> ELSE << >>
      [] node.kind = "Name" ->
           IF node.name \in {"__builtins__", "__import__", "exec", "eval"}
           THEN << SecurityViolation("DANGEROUS_NAME", "CRITICAL") >> ELSE << >>
      [] node.kind = "Global" -> << SecurityViolation("GLOBAL_STATEMENT", "CRITICAL") >>
      [] node.kind = "Nonlocal" -> << SecurityViolation("NONLOCAL_STATEMENT", "HIGH") >>
      [] node.kind = "Lambda" -> << SecurityViolation("LAMBDA_EXPRESSION", "HIGH") >>
      [] node.kind = "ClassDef" ->
           IF node.name = "bases"
           THEN << SecurityViolation("COMPLEX_CLASS", "CRITICAL") >> ELSE << >>
      [] node.kind = "Decorator" ->
           IF node.name \in {"property", "staticmethod", "classmethod"}
           THEN << >>
           ELSE << SecurityViolation("DANGEROUS_DECORATOR", "HIGH") >>
      [] node.kind = "With" -> << SecurityViolation("WITH_STATEMENT", "CRITICAL") >>
      [] node.kind = "Try" -> << SecurityViolation("TRY_EXCEPT", "HIGH") >>
      [] OTHER -> << >>

\* the walk over the nodes in visiting order (by halves, so that a long
\* module is walked in few nested steps)
RECURSIVE visit_all(_)
visit_all(nodes) ==
    IF nodes = << >> THEN << >>
    ELSE IF Len(nodes) = 1 THEN visit(nodes[1])
    ELSE LET half == Len(nodes) \div 2
         IN visit_all(SubSeq(nodes, 1, half))
                \o visit_all(SubSeq(nodes, half + 1, Len(nodes)))

\* UltraSecureValidator.validate: the walk, or one HIGH violation when
\* ast.parse raises SyntaxError.
UltraSecureValidator_validate(code) ==
    IF code.syntax_ok
    THEN visit_all(code.nodes)
    ELSE << SecurityViolation("SYNTAX_ERROR", "HIGH") >>

RECURSIVE Repeat(_, _)
Repeat(x, n) == IF n = 0 THEN << >> ELSE << x >> \o Repeat(x, n - 1)

\* one violation per (line, pattern) hit
validate_network_security(code) ==
    Repeat(SecurityViolation("NETWORK_ACCESS", "CRITICAL"), code.net_hits)

validate_javascript_patterns(code) ==
    Repeat(SecurityViolation("DANGEROUS_JS_PATTERN", "CRITICAL"), code.js_hits)

\* the validator with the shell handled like javascript
validate_code_ultra_secure_with_bash(code, language) ==
    IF language = "python"
    THEN UltraSecureValidator_validate(code) \o validate_network_security(code)
    ELSE IF language \in {"javascript", "bash"}
         THEN validate_javascript_patterns(code) \o validate_network_security(code)
         ELSE << SecurityViolation("UNSUPPORTED_LANGUAGE", "CRITICAL") >>

validate_code_ultra_secure(code, language) ==
    IF language = "python"
    THEN UltraSecureValidator_validate(code) \o validate_network_security(code)
    ELSE IF language = "javascript"
         THEN validate_javascript_patterns(code) \o validate_network_security(code)
         ELSE << SecurityViolation("UNSUPPORTED_LANGUAGE", "CRITICAL") >>

\* ------------------------------------------------------------- exceptions
NoExc == [type |-> "none", msg |-> << >>]
Raise(type, msg) == [type |-> type, msg |-> msg]

violation_messages(vs) == [i \in 1..Len(vs) |-> vs[i].type]

IsCritical(v) == v.severity = "CRITICAL"
IsHigh(v) == v.severity = "HIGH"

\* The decision rule without its HIGH check (lines 61-70 left out).
DecideViolationsNoHigh(violations) ==
    IF SelectSeq(violations, IsCritical) # << >>
    THEN Raise("SecurityError",
               << "CRITICAL SECURITY VIOLATIONS DETECTED:" >>
                   \o violation_messages(SelectSeq(violations, IsCritical)))
    ELSE NoExc

\* SandboxSecurity.validate_code after the validator has returned: the
\* exception it raises, NoExc when it returns True.
DecideViolations(violations) ==
    IF SelectSeq(violations, IsCritical) # << >>
    THEN Raise("SecurityError",
               << "CRITICAL SECURITY VIOLATIONS DETECTED:" >>
                   \o violation_messages(SelectSeq(violations, IsCritical)))
    ELSE IF SelectSeq(violations, IsHigh) # << >>
         THEN Raise("SecurityError",
                    << "HIGH SECURITY VIOLATIONS DETECTED:" >>
                        \o violation_messages(SelectSeq(violations, IsHigh)))
         ELSE NoExc

\* the sanity checks with the cap itself counted as too long
SanityCheckCapExcluded(code) ==
    IF code.blank
    THEN Raise("SecurityError", << "Empty code not allowed" >>)
    ELSE IF code.len >= MaxCodeLen
         THEN Raise("SecurityError", << "Code too long - maximum 5KB allowed" >>)
         ELSE NoExc

SanityCheck(code) ==
    IF code.blank
    THEN Raise("SecurityError", << "Empty code not allowed" >>)
    ELSE IF code.len > MaxCodeLen
         THEN Raise("SecurityError", << "Code too long - maximum 5KB allowed" >>)
         ELSE NoExc

\* validate_code without the validator and the decision rule (lines 45-79
\* left out).
validate_code_accept_all(code, language) == SanityCheck(code)

\* The exception that leaves validate_code_ultra_secure: the one ast.parse
\* raises when it is not SyntaxError (validate, lines 71-85, catches only
\* that one); NoExc when the validator returns its list.
validator_raises(code, language) ==
    IF language = "python" THEN code.parse_exc ELSE NoExc

validate_code(code, language) ==
    IF SanityCheck(code) # NoExc
    THEN SanityCheck(code)
    ELSE IF validator_raises(code, language) # NoExc
         THEN validator_raises(code, language)
         ELSE DecideViolations(validate_code_ultra_secure(code, language))

\* ------------------------------------------------------------------ inputs
Languages == {"python", "javascript", "bash", "ruby"}

Node(kind, name) == [kind |-> kind, name |-> name]

Code(len, blank, syntax_ok, nodes, js_hits, net_hits) ==
    [len |-> len, blank |-> blank, syntax_ok |-> syntax_ok, nodes |-> nodes,
     js_hits |-> js_hits, net_hits |-> net_hits, parse_exc |-> NoExc]

CodePrint == Code(10, FALSE, TRUE, << Node("Call", "print") >>, 0, 0)
CodeLoop == Code(16, FALSE, TRUE, << >>, 0, 0)
CodeImportOs == Code(9, FALSE, TRUE, << Node("Import", "os") >>, 0, 0)
CodeTry == Code(30, FALSE, TRUE, << Node("Try", ""), Node("Call", "print") >>, 0, 0)
CodeEval == Code(9, FALSE, TRUE, << Node("Call", "eval"), Node("Name", "eval") >>, 1, 0)
CodeSyntaxError == Code(6, FALSE, FALSE, << >>, 0, 0)
CodeEmpty == Code(0, TRUE, TRUE, << >>, 0, 0)
CodeAtCap == Code(MaxCodeLen, FALSE, TRUE, << Node("Call", "print") >>, 0, 0)
CodeTooLong == Code(MaxCodeLen + 1, FALSE, TRUE, << Node("Call", "print") >>, 0, 0)

\* import subprocess
CodeImportSubprocess == Code(17, FALSE, TRUE, << Node("Import", "subprocess") >>, 0, 0)
\* exec('print(1)')
CodeExec == Code(16, FALSE, TRUE, << Node("Call", "exec"), Node("Name", "exec") >>, 0, 0)
\* __import__('os')
CodeDunderImport ==
    Code(16, FALSE, TRUE, << Node("Call", "__import__"), Node("Name", "__import__") >>, 0, 0)
\* getattr(__builtins__, 'eval')
CodeGetattr ==
    Code(29, FALSE, TRUE, << Node("Call", "getattr"), Node("Name", "getattr"),
                             Node("Name", "__builtins__") >>, 0, 0)
\* open('/etc/passwd')
CodeOpen == Code(19, FALSE, TRUE, << Node("Call", "open"), Node("Name", "open") >>, 0, 0)
\* f = open; f('/etc/passwd')
CodeOpenAlias ==
    Code(25, FALSE, TRUE, << Node("Name", "f"), Node("Name", "open"), Node("Call", "f"),
                             Node("Name", "f") >>, 0, 0)
\* g = getattr; g(print, 'x')
CodeGetattrAlias ==
    Code(27, FALSE, TRUE, << Node("Name", "g"), Node("Name", "getattr"), Node("Call", "g"),
                             Node("Name", "g"), Node("Name", "print") >>, 0, 0)
\* ().__class__.__bases__[0].__subclasses__()
CodeClassWalk ==
    Code(42, FALSE, TRUE, << Node("MethodCall", "__subclasses__"),
                             Node("Attribute", "__subclasses__"),
                             Node("Attribute", "__bases__"),
                             Node("Attribute", "__class__") >>, 0, 0)
\* x = 1 + 2
CodeArith == Code(9, FALSE, TRUE, << Node("Name", "x") >>, 0, 0)
\* import math; print(math.sqrt(2) + 1)
CodeImportMath ==
    Code(34, FALSE, TRUE, << Node("Import", "math"), Node("Call", "print"),
                             Node("Name", "print"), Node("MethodCall", "sqrt"),
                             Node("Attribute", "sqrt"), Node("Name", "math") >>, 0, 0)
\* from datetime import datetime; print(datetime.now())
CodeFromDatetime ==
    Code(51, FALSE, TRUE, << Node("ImportFrom", "datetime"), Node("Call", "print"),
                             Node("Name", "print"), Node("MethodCall", "now"),
                             Node("Attribute", "now"), Node("Name", "datetime") >>, 0, 0)
\* print('hello'.upper() + str(1 + 2))
CodeStrings ==
    Code(35, FALSE, TRUE, << Node("Call", "print"), Node("Name", "print"),
                             Node("MethodCall", "upper"), Node("Attribute", "upper"),
                             Node("Call", "str"), Node("Name", "str") >>, 0, 0)
\* print('see https://docs.python.org'): one hit of the pattern https?://
CodeUrlString ==
    Code(36, FALSE, TRUE, << Node("Call", "print"), Node("Name", "print") >>, 0, 1)
\* try: import os / except: pass
CodeTryImportOs ==
    Code(29, FALSE, TRUE, << Node("Try", ""), Node("Import", "os") >>, 0, 0)
\* whitespace only
CodeBlank == Code(3, TRUE, TRUE, << >>, 0, 0)
\* import os, padded with comments beyond the cap
CodeTooLongImportOs == Code(MaxCodeLen + 1, FALSE, TRUE, << Node("Import", "os") >>, 0, 0)
\* 4990 minus signs and a digit: ast.parse raises RecursionError
CodeDeep ==
    [Code(4991, FALSE, TRUE, << >>, 0, 0) EXCEPT
        !.syntax_ok = FALSE,
        !.parse_exc = Raise("RecursionError",
                            << "maximum recursion depth exceeded during ast construction" >>)]

\* import os,os,...,os with 700 names: 2106 characters, one violation a name
CodeManyImports == Code(2106, FALSE, TRUE, [i \in 1..700 |-> Node("Import", "os")], 0, 0)

CodeSamples == {CodePrint, CodeLoop, CodeImportOs, CodeTry, CodeEval, CodeSyntaxError,
                CodeEmpty, CodeAtCap, CodeTooLong}

\* what the callers of execute_code pass in the channel specification
Requests == {[code |-> CodePrint, language |-> "python", timeout |-> 5],
             [code |-> CodeLoop, language |-> "python", timeout |-> 5],
             [code |-> CodeImportOs, language |-> "python", timeout |-> 90]}

ExecutionCommand(id, code, language, timeout) ==
    [id |-> id, code |-> code, language |-> language, timeout |-> timeout]

NoCmd == [id |-> 0]

\* ---------------------------------------------------------------- results
ExecutionResult(stdout, stderr, exit_code) ==
    [kind |-> "result", stdout |-> stdout, stderr |-> stderr, exit_code |-> exit_code]
Raised(exc) == [kind |-> "exc", exc |-> exc]
NoOut == [kind |-> "none"]

\* how a child that was spawned can end before the wait bound
ChildExits == {[stdout |-> << "2" >>, stderr |-> << >>, returncode |-> 0],
               [stdout |-> << >>, stderr |-> << "Traceback" >>, returncode |-> 1]}

\* how creating the scratch file can end: mkstemp, f.write or chmod raises
TempOutcomes == {"ok", "mkstemp", "write", "chmod"}

\* str(e) of the exceptions the model raises
FileNotFound == Raise("FileNotFoundError", << "No such file or directory" >>)
JSONDecode == Raise("JSONDecodeError", << "Expecting value" >>)
OSFailure == Raise("OSError", << "OS error" >>)

NoTemp == << >>
Range(s) == {s[i] : i \in DOMAIN s}

\* get_execution_command, the same in both engines
get_execution_command(language) ==
    IF language \in {"python", "javascript", "bash"}
    THEN NoExc
    ELSE Raise("ValueError", << "Unsupported language: ", language >>)

\* ------------------------------------- SecureFileExecutor (the worker's engine)
\* A SecureFileExecutor and the call of execute_secure it is in:
\*   pc       position in the call ("idle" between calls)
\*   cmd      the ExecutionCommand
\*   temp     temp_file of execute_with_restrictions, once bound
\*   made     the call has created a scratch file
\*   spawned  the call has spawned a child
\*   out      what the call returned or raised
\*   files    the scratch files of this executor that exist (named by call)
\*   limits   the rlimits of the process that runs the executor
\*   calls    calls of execute_secure so far
\*   fds      descriptors opened for scratch files and still open
SFE_new ==
    [pc |-> "idle", cmd |-> NoCmd, temp |-> NoTemp, made |-> FALSE, spawned |-> FALSE,
     out |-> NoOut, files |-> {}, limits |-> "inherited", calls |-> 0, fds |-> 0]

SFE_call(e, command) ==
    [e EXCEPT !.pc = "validate", !.cmd = command, !.temp = NoTemp, !.made = FALSE,
              !.spawned = FALSE, !.out = NoOut, !.calls = @ + 1]

\* the call is over: what stays of the executor
SFE_idle(e) ==
    [e EXCEPT !.pc = "idle", !.cmd = NoCmd, !.temp = NoTemp, !.made = FALSE,
              !.spawned = FALSE, !.out = NoOut]

SFE_raise(e, exc) == [e EXCEPT !.pc = "raised", !.out = Raised(exc)]

\* execute_with_restrictions, lines 169-172: the finally clause
SFE_finally(e) == [e EXCEPT !.files = @ \ Range(e.temp)]

\* execute_secure, lines 107-114: validate_code, then
\* setup_execution_environment, which sets the rlimits of the calling process.
SFE_validate(e) ==
    LET exc == validate_code(e.cmd.code, e.cmd.language) IN
    IF exc.type = "SecurityError"
    THEN {SFE_raise(e, Raise("SecurityError", << "SECURITY BLOCK: " >> \o exc.msg))}
    ELSE IF exc # NoExc
         THEN {SFE_raise(e, exc)}
         ELSE {[e EXCEPT !.pc = "create", !.limits = "restricted"]}

\* create_temp_file, lines 174-203, called at line 149, before the try.  The
\* descriptor of mkstemp is wrapped by os.fdopen and closed at the end of the
\* with block, also when f.write raises.
SFE_create_temp_file(e) ==
    {IF o = "mkstemp"
     THEN SFE_raise(e, OSFailure)
     ELSE IF o = "ok"
          THEN [e EXCEPT !.files = @ \cup {e.calls}, !.made = TRUE,
                         !.temp = << e.calls >>, !.pc = "spawn"]
          ELSE SFE_raise([e EXCEPT !.files = @ \cup {e.calls}, !.made = TRUE], OSFailure)
       : o \in TempOutcomes}

\* run_subprocess_secure, lines 256-269: TimeoutError is raised inside the
\* outer try, whose except clause turns every exception into RuntimeError.
TimeoutFailure(timeout) ==
    Raise("RuntimeError", << "Execution failed: ", "Execution timeout after ",
                             ToString(timeout), " seconds" >>)

\* execute_with_restrictions, line 153, and run_subprocess_secure, lines
\* 233-244 and 268-269: the child is spawned, or Popen raises.
SFE_spawn(e) ==
    IF get_execution_command(e.cmd.language) # NoExc
    THEN {SFE_finally(SFE_raise(e, get_execution_command(e.cmd.language)))}
    ELSE {[e EXCEPT !.spawned = TRUE, !.pc = "wait"],
          SFE_finally(SFE_raise(e, Raise("RuntimeError",
                                         << "Execution failed: " >> \o OSFailure.msg)))}

\* run_subprocess_secure, lines 246-269, and execute_with_restrictions, lines
\* 158-172: the child exits within min(timeout, max_execution_time), or it
\* is killed at that bound (max_execution_time is 30, line 46).
SFE_wait(e) ==
    {SFE_finally([e EXCEPT !.pc = "returned",
                           !.out = ExecutionResult(x.stdout, x.stderr, x.returncode)])
       : x \in ChildExits}
    \cup {SFE_finally(SFE_raise(e, TimeoutFailure(e.cmd.timeout)))}

SFE_steps(e) ==
    CASE e.pc = "validate" -> SFE_validate(e)
      [] e.pc = "create" -> SFE_create_temp_file(e)
      [] e.pc = "spawn" -> SFE_spawn(e)
      [] e.pc = "wait" -> SFE_wait(e)
      [] OTHER -> {}

\* every way a call of execute_secure can end
RECURSIVE SFE_run(_)
SFE_run(e) ==
    IF e.pc \in {"returned", "raised"}
    THEN {e}
    ELSE UNION {SFE_run(n) : n \in SFE_steps(e)}

\* ------------------------------------------- CodeExecutor (the direct engine)
\* As above; bound says whether temp_file is among the locals of
\* _execute_with_restrictions.
CE_new ==
    [pc |-> "idle", code |-> CodeEmpty, language |-> "python", temp |-> NoTemp,
     made |-> FALSE, spawned |-> FALSE, out |-> NoOut, files |-> {}, calls |-> 0,
     fds |-> 0]

CE_call(e, code, language) ==
    [e EXCEPT !.pc = "validate", !.code = code, !.language = language,
              !.temp = NoTemp, !.made = FALSE, !.spawned = FALSE, !.out = NoOut,
              !.calls = @ + 1]

CE_raise(e, exc) == [e EXCEPT !.pc = "raised", !.out = Raised(exc)]
CE_return(e, result) == [e EXCEPT !.pc = "returned", !.out = result]

\* _execute_with_restrictions, lines 127-130: the finally clause
CE_finally(e) == [e EXCEPT !.files = @ \ Range(e.temp)]

\* execute_secure, lines 92-96
CE_validate(e) ==
    LET exc == validate_code(e.code, e.language) IN
    IF exc.type = "SecurityError"
    THEN {CE_raise(e, Raise("SecurityError", << "SECURITY BLOCK: " >> \o exc.msg))}
    ELSE IF exc # NoExc
         THEN {CE_raise(e, exc)}
         ELSE {[e EXCEPT !.pc = "create"]}

\* _create_temp_file, lines 132-160, called at line 108 inside the try: when
\* it raises, temp_file is not among the locals the finally clause looks at.
\* The descriptor mkstemp returns (line 145) is not used again: the code is
\* written through a second one, open(temp_path, 'w') (line 152), and only
\* that one is closed.
CE_create_temp_file(e) ==
    {IF o = "mkstemp"
     THEN CE_finally(CE_raise(e, OSFailure))
     ELSE IF o = "ok"
          THEN [e EXCEPT !.files = @ \cup {e.calls}, !.made = TRUE, !.fds = @ + 1,
                         !.temp = << e.calls >>, !.pc = "spawn"]
          ELSE CE_finally(CE_raise([e EXCEPT !.files = @ \cup {e.calls}, !.made = TRUE,
                                             !.fds = @ + 1],
                                   OSFailure))
       : o \in TempOutcomes}

\* _execute_with_restrictions, line 111, and _run_subprocess_secure, lines
\* 193-204 and 232-237: the child is spawned, or Popen raises and a result
\* with returncode -1 is returned.
CE_spawn(e) ==
    IF get_execution_command(e.language) # NoExc
    THEN {CE_finally(CE_raise(e, get_execution_command(e.language)))}
    ELSE {[e EXCEPT !.spawned = TRUE, !.pc = "wait"],
          CE_finally(CE_return(e, ExecutionResult(<< >>,
                                      << "EXECUTION ERROR: " >> \o OSFailure.msg,
                                      SpawnErrorReturnCode)))}

\* _run_subprocess_secure, lines 206-230, and _execute_with_restrictions,
\* lines 116-130
CE_wait(e) ==
    {CE_finally(CE_return(e, ExecutionResult(x.stdout, x.stderr, x.returncode)))
       : x \in ChildExits}
    \cup {CE_finally(CE_return(e, ExecutionResult(<< >>,
                         << "EXECUTION TIMEOUT: Process killed after timeout" >>,
                         TimeoutReturnCode)))}

CE_steps(e) ==
    CASE e.pc = "validate" -> CE_validate(e)
      [] e.pc = "create" -> CE_create_temp_file(e)
      [] e.pc = "spawn" -> CE_spawn(e)
      [] e.pc = "wait" -> CE_wait(e)
      [] OTHER -> {}

\* ------------------------------------------------------------------ files
NoFile == [exists |-> FALSE]
PartialFile(mode) == [exists |-> TRUE, complete |-> FALSE, mode |-> mode]
File(mode, data) == [exists |-> TRUE, complete |-> TRUE, mode |-> mode, data |-> data]

VARIABLES
    inbox,      \* COMMAND_DIR: command id -> file
    outbox,     \* RESULT_DIR: command id -> file
    wpc,        \* worker -> position in run_daemon
    wtodo,      \* worker -> command files of the current listing not yet visited
    wcur,       \* worker -> the command file being processed (its stem)
    wcmd,       \* worker -> the ExecutionCommand parsed from it
    wout,       \* worker -> the result or exception to report
    wlevel,     \* worker -> 0 in write_result, 1 / 2 in the write_error_result
                \*           of process_command_file / of run_daemon
    wstale,     \* worker -> the result file it holds open has been unlinked
    wdumped,    \* worker -> json.dump has put a result for the current command
                \*           file into the outbox
    wexec,      \* worker -> its SecureFileExecutor
    ran,        \* worker -> command id -> children spawned for it
    crashes,    \* daemon crashes so far
    cpc,        \* controller -> position in execute_code
    creq,       \* controller -> the arguments of execute_code
    cret,       \* controller -> what execute_code returned or raised
    cseen,      \* controller -> a poll of wait_for_result has found the result file
    sfe,        \* a SecureFileExecutor called directly
    ce,         \* a CodeExecutor called directly
    dvpc,       \* decision rule: position
    dvin,       \* decision rule: the violation list
    dvout,      \* decision rule: the exception raised, NoExc for True
    dvcall,     \* validate_code: its arguments, and whether the validator ran
    audit,      \* a call of validate_network_isolation and its report
    proc,       \* a run of run_subprocess_secure and the processes it started
    enf,        \* a call of enforce_network_isolation
    cli         \* a run of the audit command line

chanVars == << inbox, outbox >>
workerVars == << wpc, wtodo, wcur, wcmd, wout, wlevel, wstale, wdumped, wexec, ran,
                crashes >>
ctlVars == << cpc, creq, cret, cseen >>
engVars == << sfe, ce >>
dvVars == << dvpc, dvin, dvout, dvcall >>
auditVars == << audit >>
procVars == << proc >>
cliVars == << enf, cli >>
vars == << inbox, outbox, wpc, wtodo, wcur, wcmd, wout, wlevel, wstale, wdumped, wexec, ran,
           crashes, cpc, creq, cret, cseen, sfe, ce, dvpc, dvin, dvout, dvcall, audit,
           proc, enf, cli >>

\* WORKSPACE_DIR: the scratch files that exist
workspace ==
    UNION {{<< w, n >> : n \in wexec[w].files} : w \in Workers}

\* ------------------------------------------------------------------- Init
ChannelIdle ==
    /\ inbox = [i \in Ids |-> NoFile]
    /\ outbox = [i \in Ids |-> NoFile]
    /\ cpc = [c \in Ids |-> "start"]
    /\ creq = [c \in Ids |-> [timeout |-> 0]]
    /\ cret = [c \in Ids |-> NoOut]
    /\ cseen = [c \in Ids |-> FALSE]

WorkersIdle ==
    /\ wpc = [w \in Workers |-> "poll"]
    /\ wtodo = [w \in Workers |-> {}]
    /\ wcur = [w \in Workers |-> 0]
    /\ wcmd = [w \in Workers |-> NoCmd]
    /\ wout = [w \in Workers |-> NoOut]
    /\ wlevel = [w \in Workers |-> 0]
    /\ wstale = [w \in Workers |-> FALSE]
    /\ wdumped = [w \in Workers |-> FALSE]
    /\ wexec = [w \in Workers |-> SFE_new]
    /\ ran = [w \in Workers |-> [i \in Ids |-> 0]]
    /\ crashes = 0

EnginesIdle ==
    /\ sfe = SFE_new
    /\ ce = CE_new

DecisionIdle ==
    /\ dvpc = "idle"
    /\ dvin = << >>
    /\ dvout = NoExc
    /\ dvcall = [code |-> CodeEmpty, language |-> "python", analysed |-> FALSE]

\* ------------------------------------------ the network isolation audit
\* the report validate_network_isolation starts from (lines 25-32): every
\* flag False, no violation; the key network_info is added at line 54
NoInfo == [kind |-> "absent"]

NewReport ==
    [network_isolated |-> FALSE, internet_blocked |-> FALSE,
     internal_access_blocked |-> FALSE, dns_blocked |-> FALSE,
     port_exposure_safe |-> FALSE, violations |-> << >>,
     network_info |-> NoInfo]

AuditIdle == audit = [pc |-> "idle", ports |-> {}, results |-> NewReport]

\* no child spawned yet
ProcIdle ==
    proc = [pc |-> "idle", timeout |-> 0, waited |-> 0, child |-> FALSE,
            group |-> {}, left |-> {}, killed |-> {}]

\* enforce_network_isolation not called, the command line not started
CliIdle ==
    /\ enf = [pc |-> "idle", outcomes |-> << >>, returned |-> FALSE]
    /\ cli = [pc |-> "start", printed |-> "none", exit_code |-> -1]

\* No command submitted, every daemon at the top of its loop, no call made.
Init == ChannelIdle /\ WorkersIdle /\ EnginesIdle /\ DecisionIdle /\ AuditIdle
        /\ ProcIdle /\ CliIdle

\* ---------------------------------------------------- the worker daemon
\* the except clause of process_command_file without its write_error_result:
\* the exception is dropped and the command file removed
ToErrorDropped(w, exc) ==
    /\ wout' = [wout EXCEPT ![w] = Raised(exc)]
    /\ wlevel' = [wlevel EXCEPT ![w] = 1]
    /\ wpc' = [wpc EXCEPT ![w] = "unlink"]

\* the exception ends the loop of run_daemon
ToErrorStops(w, exc) ==
    /\ wout' = [wout EXCEPT ![w] = Raised(exc)]
    /\ wlevel' = [wlevel EXCEPT ![w] = 1]
    /\ wpc' = [wpc EXCEPT ![w] = "stopped"]

\* an exception reaches the except clause of process_command_file (line 100)
ToErrorResult(w, exc) ==
    /\ wout' = [wout EXCEPT ![w] = Raised(exc)]
    /\ wlevel' = [wlevel EXCEPT ![w] = 1]
    /\ wpc' = [wpc EXCEPT ![w] = "w_open"]

\* run_daemon, line 59: list the inbox.
Glob(w) ==
    /\ wpc[w] = "poll"
    /\ wtodo' = [wtodo EXCEPT ![w] = {i \in Ids : inbox[i].exists}]
    /\ wpc' = [wpc EXCEPT ![w] = IF wtodo'[w] = {} THEN "poll" ELSE "iter"]
    /\ UNCHANGED << chanVars, wcur, wcmd, wout, wlevel, wstale, wdumped, wexec, ran,
                    crashes, ctlVars, engVars, dvVars, auditVars, procVars, cliVars >>

\* run_daemon, line 61, and process_command_file, lines 87-90: take the next
\* file of the listing, open it and parse it.
ReadCommand(w) ==
    /\ wpc[w] = "iter"
    /\ \E f \in wtodo[w] :
          /\ wtodo' = [wtodo EXCEPT ![w] = @ \ {f}]
          /\ wcur' = [wcur EXCEPT ![w] = f]
          /\ IF ~inbox[f].exists
             THEN ToErrorResult(w, FileNotFound) /\ UNCHANGED wcmd
             ELSE IF ~inbox[f].complete
                  THEN ToErrorResult(w, JSONDecode) /\ UNCHANGED wcmd
                  ELSE /\ wcmd' = [wcmd EXCEPT ![w] = inbox[f].data]
                       /\ wpc' = [wpc EXCEPT ![w] = "execute"]
                       /\ UNCHANGED << wout, wlevel >>
    /\ UNCHANGED << chanVars, wstale, wdumped, wexec, ran, crashes, ctlVars, engVars,
                    dvVars, auditVars, procVars, cliVars >>

\* process_command_file, line 95: the call of execute_secure, from validation
\* to the result or the exception (it touches neither inbox nor outbox).
Execute(w) ==
    /\ wpc[w] = "execute"
    /\ \E e \in SFE_run(SFE_call(wexec[w], wcmd[w])) :
          /\ wexec' = [wexec EXCEPT ![w] = SFE_idle(e)]
          /\ ran' = [ran EXCEPT ![w][wcmd[w].id] = IF e.spawned THEN @ + 1 ELSE @]
          /\ wout' = [wout EXCEPT ![w] = e.out]
          /\ wlevel' = [wlevel EXCEPT ![w] = IF e.pc = "returned" THEN 0 ELSE 1]
    /\ wpc' = [wpc EXCEPT ![w] = "w_open"]
    /\ UNCHANGED << chanVars, wtodo, wcur, wcmd, wstale, wdumped, crashes, ctlVars,
                    engVars, dvVars, auditVars, procVars, cliVars >>

\* write_result, lines 296-304: the JSON object of a result (it has no
\* security_error key)
write_result(result) ==
    [stdout |-> result.stdout, stderr |-> result.stderr,
     exit_code |-> result.exit_code]

\* write_error_result, lines 318-327: the JSON object of an error
write_error_result(error_message) ==
    [stdout |-> << >>, stderr |-> << "SECURITY ERROR: " >> \o error_message,
     exit_code |-> ErrorExitCode, security_error |-> TRUE]

\* the name of the result file: command.id in write_result (line 98),
\* command_file.stem in write_error_result (lines 65, 102)
ResultTarget(w) == IF wlevel[w] = 0 THEN wcmd[w].id ELSE wcur[w]

\* process_command_file, lines 95-102: what is written for a result that
\* execute_secure returned (level 0) and for an exception (levels 1 and 2)
ResultDataOf(level, out) ==
    IF level = 0 THEN write_result(out) ELSE write_error_result(out.exc.msg)

ResultData(w) == ResultDataOf(wlevel[w], wout[w])

\* open(result_file, 'w'), lines 306 and 329: the file is created, or
\* truncated when it exists; it is empty until the with block is left.
WriteOpen(w) ==
    /\ wpc[w] = "w_open"
    /\ outbox' = [outbox EXCEPT ![ResultTarget(w)] =
                     PartialFile(IF @.exists THEN @.mode ELSE Mode644)]
    /\ wstale' = [wstale EXCEPT ![w] = FALSE]
    /\ wpc' = [wpc EXCEPT ![w] = "w_dump"]
    /\ UNCHANGED << inbox, wtodo, wcur, wcmd, wout, wlevel, wdumped, wexec, ran,
                    crashes, ctlVars, engVars, dvVars, auditVars, procVars, cliVars >>

\* json.dump and the end of the with block, lines 306-307 and 329-330.  The
\* bytes go to the file the worker opened: nowhere visible when that file has
\* been unlinked since.  Two daemons writing different objects through two
\* descriptors of one file leave either the later object or a mix of both.
WriteDump(w) ==
    /\ wpc[w] = "w_dump"
    /\ LET t == ResultTarget(w) IN
          IF wstale[w] \/ ~outbox[t].exists
          THEN UNCHANGED outbox
          ELSE \/ outbox' = [outbox EXCEPT ![t] = File(@.mode, ResultData(w))]
               \/ /\ outbox[t].complete
                  /\ outbox[t].data # ResultData(w)
                  /\ outbox' = [outbox EXCEPT ![t] = PartialFile(@.mode)]
    /\ wdumped' = [wdumped EXCEPT ![w] =
                      @ \/ (/\ ~wstale[w]
                            /\ outbox[ResultTarget(w)].exists
                            /\ outbox'[ResultTarget(w)] =
                                  File(outbox[ResultTarget(w)].mode, ResultData(w)))]
    /\ wpc' = [wpc EXCEPT ![w] = "w_chmod"]
    /\ UNCHANGED << inbox, wtodo, wcur, wcmd, wout, wlevel, wstale, wexec, ran,
                    crashes, ctlVars, engVars, dvVars, auditVars, procVars, cliVars >>

\* result_file.chmod(0o600), lines 310 and 332, by path.  When the file is
\* gone it raises: from write_result into the except clause of
\* process_command_file (line 100), from there into the except clause of
\* run_daemon (line 64), from there through the finally clause into the
\* outer except clause (line 79), which gives up the rest of the listing.
WriteChmod(w) ==
    /\ wpc[w] = "w_chmod"
    /\ LET t == ResultTarget(w) IN
          IF outbox[t].exists
          THEN /\ outbox' = [outbox EXCEPT ![t].mode = Mode600]
               /\ wpc' = [wpc EXCEPT ![w] = "unlink"]
               /\ UNCHANGED << wout, wlevel, wtodo >>
          ELSE /\ UNCHANGED outbox
               /\ wout' = [wout EXCEPT ![w] = Raised(FileNotFound)]
               /\ IF wlevel[w] < 2
                  THEN /\ wlevel' = [wlevel EXCEPT ![w] = @ + 1]
                       /\ wpc' = [wpc EXCEPT ![w] = "w_open"]
                       /\ UNCHANGED wtodo
                  ELSE /\ wtodo' = [wtodo EXCEPT ![w] = {}]
                       /\ wpc' = [wpc EXCEPT ![w] = "unlink"]
                       /\ UNCHANGED wlevel
    /\ UNCHANGED << inbox, wcur, wcmd, wstale, wdumped, wexec, ran, crashes, ctlVars,
                    engVars, dvVars, auditVars, procVars, cliVars >>

\* run_daemon, lines 66-71: the finally clause removes the command file; the
\* loop goes on with the listing, then sleeps and lists again.
Unlink(w) ==
    /\ wpc[w] = "unlink"
    /\ inbox' = [inbox EXCEPT ![wcur[w]] = NoFile]
    /\ wpc' = [wpc EXCEPT ![w] = IF wtodo[w] = {} THEN "poll" ELSE "iter"]
    /\ wcur' = [wcur EXCEPT ![w] = 0]
    /\ wcmd' = [wcmd EXCEPT ![w] = NoCmd]
    /\ wout' = [wout EXCEPT ![w] = NoOut]
    /\ wlevel' = [wlevel EXCEPT ![w] = 0]
    /\ wdumped' = [wdumped EXCEPT ![w] = FALSE]
    /\ UNCHANGED << outbox, wtodo, wstale, wexec, ran, crashes, ctlVars, engVars,
                    dvVars, auditVars, procVars, cliVars >>

\* every state a call of execute_secure goes through
RECURSIVE SFE_reach(_)
SFE_reach(e) == {e} \cup UNION {SFE_reach(n) : n \in SFE_steps(e)}

\* The daemon process dies while it handles a command file and is started
\* again (main, lines 336-353): all that is left of it are the files.
CrashRestart(w) ==
    /\ crashes < MaxCrashes
    /\ wpc[w] \notin {"poll", "iter", "execute"}
    /\ crashes' = crashes + 1
    /\ wpc' = [wpc EXCEPT ![w] = "poll"]
    /\ wtodo' = [wtodo EXCEPT ![w] = {}]
    /\ wcur' = [wcur EXCEPT ![w] = 0]
    /\ wcmd' = [wcmd EXCEPT ![w] = NoCmd]
    /\ wout' = [wout EXCEPT ![w] = NoOut]
    /\ wlevel' = [wlevel EXCEPT ![w] = 0]
    /\ wstale' = [wstale EXCEPT ![w] = FALSE]
    /\ wdumped' = [wdumped EXCEPT ![w] = FALSE]
    /\ wexec' = [wexec EXCEPT ![w].limits = "inherited"]
    /\ UNCHANGED << chanVars, ran, ctlVars, engVars, dvVars, auditVars, procVars, cliVars >>

\* The same, while the daemon is in execute_secure: before the call or at any
\* point of it.
CrashInCall(w) ==
    /\ crashes < MaxCrashes
    /\ wpc[w] = "execute"
    /\ crashes' = crashes + 1
    /\ \E e \in {wexec[w]} \cup SFE_reach(SFE_call(wexec[w], wcmd[w])) :
          /\ wexec' = [wexec EXCEPT ![w] = [SFE_idle(e) EXCEPT !.limits = "inherited"]]
          /\ ran' = [ran EXCEPT ![w][wcmd[w].id] = IF e.spawned THEN @ + 1 ELSE @]
    /\ wpc' = [wpc EXCEPT ![w] = "poll"]
    /\ wtodo' = [wtodo EXCEPT ![w] = {}]
    /\ wcur' = [wcur EXCEPT ![w] = 0]
    /\ wcmd' = [wcmd EXCEPT ![w] = NoCmd]
    /\ wout' = [wout EXCEPT ![w] = NoOut]
    /\ wlevel' = [wlevel EXCEPT ![w] = 0]
    /\ wstale' = [wstale EXCEPT ![w] = FALSE]
    /\ wdumped' = [wdumped EXCEPT ![w] = FALSE]
    /\ UNCHANGED << chanVars, ctlVars, engVars, dvVars, auditVars, procVars, cliVars >>

\* ------------------------------------------------------- the controller
\* execute_code, lines 37-43
ClientCommand(c) ==
    ExecutionCommand(c, creq[c].code, creq[c].language,
                     Min(creq[c].timeout, ClientMaxTimeout))

\* wait_for_result is called with timeout + 5 (line 58)
MaxWait(c) == creq[c].timeout + ClientOverhead

\* wait_for_result, line 100, as execute_code re-raises it (line 69)
ClientTimeout(c) ==
    Raise("RuntimeError", << "Sandbox execution failed: ", "Sandbox execution timeout after ",
                             ToString(MaxWait(c)), " seconds" >>)

\* execute_code, lines 27-49: the call, with its arguments; open(command_file,
\* 'w') creates the empty command file.
CtlOpenWith(c, requests) ==
    /\ cpc[c] = "start"
    /\ \E r \in requests : creq' = [creq EXCEPT ![c] = r]
    /\ inbox' = [inbox EXCEPT ![c] = PartialFile(Mode644)]
    /\ cpc' = [cpc EXCEPT ![c] = "opened"]
    /\ UNCHANGED << outbox, workerVars, cret, cseen, engVars, dvVars, auditVars, procVars, cliVars >>

CtlOpen(c) == CtlOpenWith(c, Requests)

\* execute_code, lines 49-50: json.dump and the end of the with block.
CtlDump(c) ==
    /\ cpc[c] = "opened"
    /\ inbox' = IF inbox[c].exists
                THEN [inbox EXCEPT ![c] = File(@.mode, ClientCommand(c))]
                ELSE inbox
    /\ cpc' = [cpc EXCEPT ![c] = "dumped"]
    /\ UNCHANGED << outbox, workerVars, creq, cret, cseen, engVars, dvVars, auditVars, procVars, cliVars >>

\* execute_code, line 53, and lines 62-69 when chmod raises.
CtlChmod(c) ==
    /\ cpc[c] = "dumped"
    /\ IF inbox[c].exists
       THEN /\ inbox' = [inbox EXCEPT ![c].mode = Mode644]
            /\ cpc' = [cpc EXCEPT ![c] = "wait"]
            /\ UNCHANGED cret
       ELSE /\ UNCHANGED inbox
            /\ cret' = [cret EXCEPT ![c] =
                  Raised(Raise("RuntimeError",
                               << "Sandbox execution failed: " >> \o FileNotFound.msg))]
            /\ cpc' = [cpc EXCEPT ![c] = "raised"]
    /\ UNCHANGED << outbox, workerVars, creq, cseen, engVars, dvVars, auditVars, procVars, cliVars >>

\* wait_for_result, lines 77-94, in an iteration that finds the result file:
\* it is read and removed, or json.load raises, the loop is left by break and
\* line 100 raises; execute_code, lines 62-69, then removes the command file.
CtlPoll(c) ==
    /\ cpc[c] = "wait"
    /\ outbox[c].exists
    /\ cseen' = [cseen EXCEPT ![c] = TRUE]
    /\ IF outbox[c].complete
       THEN /\ cret' = [cret EXCEPT ![c] = [kind |-> "result", data |-> outbox[c].data]]
            /\ outbox' = [outbox EXCEPT ![c] = NoFile]
            /\ wstale' = [w \in Workers |->
                             wstale[w] \/ (wpc[w] = "w_dump" /\ ResultTarget(w) = c)]
            /\ cpc' = [cpc EXCEPT ![c] = "returned"]
            /\ UNCHANGED inbox
       ELSE /\ cret' = [cret EXCEPT ![c] = Raised(ClientTimeout(c))]
            /\ inbox' = [inbox EXCEPT ![c] = NoFile]
            /\ cpc' = [cpc EXCEPT ![c] = "raised"]
            /\ UNCHANGED << outbox, wstale >>
    /\ UNCHANGED << wpc, wtodo, wcur, wcmd, wout, wlevel, wdumped, wexec, ran,
                    crashes, creq, engVars, dvVars, auditVars, procVars, cliVars >>

\* wait_for_result, lines 77 and 100: max_wait seconds have passed at the
\* loop test; execute_code, lines 62-69, removes the command file.
CtlTimeout(c) ==
    /\ cpc[c] = "wait"
    /\ cret' = [cret EXCEPT ![c] = Raised(ClientTimeout(c))]
    /\ inbox' = [inbox EXCEPT ![c] = NoFile]
    /\ cpc' = [cpc EXCEPT ![c] = "raised"]
    /\ UNCHANGED << outbox, workerVars, creq, cseen, engVars, dvVars, auditVars, procVars, cliVars >>

\* The /execute route that awaits execute_code (sandbox_server_old.py,
\* lines 1141-1162): the status it answers with.
HandlerStatus(ret) ==
    IF ret.kind = "result" THEN Http200
    ELSE IF ret.exc.type = "SecurityError" THEN Http403
    ELSE IF ret.exc.type = "TimeoutError" THEN Http408
    ELSE Http500

\* ------------------------------------------------------------------ Spec
\* The default deployment: one daemon, which may crash and be restarted, and
\* NumCmds calls of execute_code.
Daemon == 1

Next ==
    \/ Glob(Daemon)
    \/ ReadCommand(Daemon)
    \/ Execute(Daemon)
    \/ WriteOpen(Daemon)
    \/ WriteDump(Daemon)
    \/ WriteChmod(Daemon)
    \/ Unlink(Daemon)
    \/ CrashRestart(Daemon)
    \/ CrashInCall(Daemon)
    \/ \E c \in Ids : CtlOpen(c)
    \/ \E c \in Ids : CtlDump(c)
    \/ \E c \in Ids : CtlChmod(c)
    \/ \E c \in Ids : CtlPoll(c)
    \/ \E c \in Ids : CtlTimeout(c)

Spec == Init /\ [][Next]_vars

\* The loop of run_daemon (while True, lines 56-81): whatever statement the
\* daemon is at, it goes on to the next one.  A crash is not forced to happen
\* and the caller is not forced to move.
DaemonStep ==
    \/ Glob(Daemon)
    \/ ReadCommand(Daemon)
    \/ Execute(Daemon)
    \/ WriteOpen(Daemon)
    \/ WriteDump(Daemon)
    \/ WriteChmod(Daemon)
    \/ Unlink(Daemon)

\* the calls of execute_code in the fair specification, both of them failures
\* for the daemon: code that validation rejects, and a language the engine has
\* no command for (the scratch file is created, or creating it raises, then
\* get_execution_command raises)
LiveRequests == {[code |-> CodeImportOs, language |-> "python", timeout |-> 90],
                 [code |-> CodePrint, language |-> "ruby", timeout |-> 5]}

NextLive ==
    \/ DaemonStep
    \/ CrashRestart(Daemon)
    \/ CrashInCall(Daemon)
    \/ \E c \in Ids : CtlOpenWith(c, LiveRequests)
    \/ \E c \in Ids : CtlDump(c)
    \/ \E c \in Ids : CtlChmod(c)
    \/ \E c \in Ids : CtlPoll(c)
    \/ \E c \in Ids : CtlTimeout(c)

SpecLive == Init /\ [][NextLive]_vars /\ WF_vars(DaemonStep)

\* ---------------------------------------------------------- SpecDaemons
\* NumWorkers daemons poll the same inbox and outbox; one call of execute_code.
FirstCmd == 1

NextDaemons ==
    \/ \E w \in Workers : Glob(w)
    \/ \E w \in Workers : ReadCommand(w)
    \/ \E w \in Workers : Execute(w)
    \/ \E w \in Workers : WriteOpen(w)
    \/ \E w \in Workers : WriteDump(w)
    \/ \E w \in Workers : WriteChmod(w)
    \/ \E w \in Workers : Unlink(w)
    \/ CtlOpen(FirstCmd)
    \/ CtlDump(FirstCmd)
    \/ CtlChmod(FirstCmd)
    \/ CtlPoll(FirstCmd)
    \/ CtlTimeout(FirstCmd)

SpecDaemons == Init /\ [][NextDaemons]_vars

\* ----------------------------------------------------------- SpecEngine
\* The two engines called directly by one thread, up to MaxCalls times each:
\* a call starts when no other call is under way.
NoCallUnderWay(e) == e.pc \in {"idle", "returned", "raised"}

EngineCodes == CodeSamples \cup {CodeManyImports}
EngineTimeouts == {5}

SecureCall ==
    /\ NoCallUnderWay(sfe)
    /\ NoCallUnderWay(ce)
    /\ sfe.calls < MaxCalls
    /\ \E code \in EngineCodes, language \in Languages, timeout \in EngineTimeouts :
          sfe' = SFE_call(sfe, ExecutionCommand(1, code, language, timeout))
    /\ UNCHANGED << chanVars, workerVars, ctlVars, ce, dvVars, auditVars, procVars, cliVars >>

SecureValidate ==
    /\ sfe.pc = "validate"
    /\ sfe' \in SFE_validate(sfe)
    /\ UNCHANGED << chanVars, workerVars, ctlVars, ce, dvVars, auditVars, procVars, cliVars >>

SecureCreateTemp ==
    /\ sfe.pc = "create"
    /\ sfe' \in SFE_create_temp_file(sfe)
    /\ UNCHANGED << chanVars, workerVars, ctlVars, ce, dvVars, auditVars, procVars, cliVars >>

SecureSpawn ==
    /\ sfe.pc = "spawn"
    /\ sfe' \in SFE_spawn(sfe)
    /\ UNCHANGED << chanVars, workerVars, ctlVars, ce, dvVars, auditVars, procVars, cliVars >>

SecureWait ==
    /\ sfe.pc = "wait"
    /\ sfe' \in SFE_wait(sfe)
    /\ UNCHANGED << chanVars, workerVars, ctlVars, ce, dvVars, auditVars, procVars, cliVars >>

DirectCall ==
    /\ NoCallUnderWay(sfe)
    /\ NoCallUnderWay(ce)
    /\ ce.calls < MaxCalls
    /\ \E code \in EngineCodes, language \in Languages :
          ce' = CE_call(ce, code, language)
    /\ UNCHANGED << chanVars, workerVars, ctlVars, sfe, dvVars, auditVars, procVars, cliVars >>

DirectValidate ==
    /\ ce.pc = "validate"
    /\ ce' \in CE_validate(ce)
    /\ UNCHANGED << chanVars, workerVars, ctlVars, sfe, dvVars, auditVars, procVars, cliVars >>

DirectCreateTemp ==
    /\ ce.pc = "create"
    /\ ce' \in CE_create_temp_file(ce)
    /\ UNCHANGED << chanVars, workerVars, ctlVars, sfe, dvVars, auditVars, procVars, cliVars >>

DirectSpawn ==
    /\ ce.pc = "spawn"
    /\ ce' \in CE_spawn(ce)
    /\ UNCHANGED << chanVars, workerVars, ctlVars, sfe, dvVars, auditVars, procVars, cliVars >>

DirectWait ==
    /\ ce.pc = "wait"
    /\ ce' \in CE_wait(ce)
    /\ UNCHANGED << chanVars, workerVars, ctlVars, sfe, dvVars, auditVars, procVars, cliVars >>

NextEngine ==
    \/ SecureCall \/ SecureValidate \/ SecureCreateTemp \/ SecureSpawn \/ SecureWait
    \/ DirectCall \/ DirectValidate \/ DirectCreateTemp \/ DirectSpawn \/ DirectWait

SpecEngine == Init /\ [][NextEngine]_vars

\* ----------------------------------------------------------- SpecDecide
\* The decision rule of validate_code on every violation list of up to
\* MaxViol entries.
ViolationLists ==
    UNION {[1..n -> {SecurityViolation("FINDING", s) : s \in Severities}] : n \in 0..MaxViol}

ValidatorReturns ==
    /\ dvpc = "idle"
    /\ \E vs \in ViolationLists : dvin' = vs
    /\ dvpc' = "validated"
    /\ UNCHANGED << chanVars, workerVars, ctlVars, engVars, dvout, dvcall, auditVars, procVars, cliVars >>

Decide ==
    /\ dvpc = "validated"
    /\ dvout' = DecideViolations(dvin)
    /\ dvpc' = "decided"
    /\ UNCHANGED << chanVars, workerVars, ctlVars, engVars, dvin, dvcall, auditVars, procVars, cliVars >>

NextDecide == ValidatorReturns \/ Decide

SpecDecide == Init /\ [][NextDecide]_vars

\* ---------------------------------------------------------- SpecValidate
\* validate_code called on each sample: the sanity check, the validator, the
\* decision rule.
ValidateCodes ==
    CodeSamples \cup {CodeImportSubprocess, CodeExec, CodeDunderImport, CodeGetattr,
                      CodeOpen, CodeOpenAlias, CodeGetattrAlias, CodeClassWalk,
                      CodeArith, CodeImportMath, CodeFromDatetime, CodeStrings,
                      CodeUrlString, CodeTryImportOs, CodeBlank, CodeTooLongImportOs,
                      CodeDeep}

\* validate_code, line 33: the call
ValidateCall ==
    /\ dvpc \in {"idle", "decided"}
    /\ \E code \in ValidateCodes, language \in Languages :
          dvcall' = [code |-> code, language |-> language, analysed |-> FALSE]
    /\ dvpc' = "sanity"
    /\ dvin' = << >>
    /\ dvout' = NoExc
    /\ UNCHANGED << chanVars, workerVars, ctlVars, engVars, auditVars, procVars, cliVars >>

\* validate_code, lines 38-43: the sanity checks
ValidateSanity ==
    /\ dvpc = "sanity"
    /\ dvout' = SanityCheck(dvcall.code)
    /\ dvpc' = IF dvout' # NoExc THEN "decided" ELSE "validator"
    /\ UNCHANGED << chanVars, workerVars, ctlVars, engVars, dvin, dvcall, auditVars, procVars, cliVars >>

\* validate_code, line 46: validate_code_ultra_secure returns its list, or
\* the exception of ast.parse leaves it and validate_code
ValidatorRuns ==
    /\ dvpc = "validator"
    /\ dvcall' = [dvcall EXCEPT !.analysed = TRUE]
    /\ IF validator_raises(dvcall.code, dvcall.language) # NoExc
       THEN /\ dvout' = validator_raises(dvcall.code, dvcall.language)
            /\ dvpc' = "decided"
            /\ UNCHANGED dvin
       ELSE /\ dvin' = validate_code_ultra_secure(dvcall.code, dvcall.language)
            /\ dvpc' = "validated"
            /\ UNCHANGED dvout
    /\ UNCHANGED << chanVars, workerVars, ctlVars, engVars, auditVars, procVars, cliVars >>

NextValidate == ValidateCall \/ ValidateSanity \/ ValidatorRuns \/ Decide

SpecValidate == Init /\ [][NextValidate]_vars

\* ------------------------------------- validate_network_isolation itself
\* the test commands a probe runs in the container (the lists of the source
\* hold 8, 5 and 4 commands)
NumProbeCmds == 2

\* what one test command can do: exit 0, exit non-zero, run out of time, or
\* fail to start (subprocess.run raises)
ProbeOutcomes == {"success", "failure", "timeout", "error"}

ProbeRuns == [1..NumProbeCmds -> ProbeOutcomes]

\* the ports the audited container can publish
PublishablePorts == {"8080/tcp", "5000/tcp"}

\* docker ps lists the container, does not list it, or cannot be run
ContainerStates == {"listed", "not_listed", "error"}

_is_container_running(ps) == ps = "listed"

\* the probe reports "not blocked" at the first test command that succeeds;
\* a timeout or an exception counts as blocked
_test_internet_blocked(runs) == \A i \in DOMAIN runs : runs[i] # "success"

_test_internal_network_blocked(runs) ==
    \A i \in DOMAIN runs : runs[i] # "success"

\* a lookup succeeds when it exits 0 and its output holds the name
_test_dns_blocked(runs) == \A i \in DOMAIN runs : runs[i] # "success"

\* docker port prints the published ports; any output means exposure, and a
\* failure to run it is reported as unsafe
_test_port_exposure_safe(docker_port, ports) ==
    docker_port = "success" /\ ports = {}

\* docker inspect: the report's network_info holds the ports, or the error
_get_network_info(inspect, ports) ==
    IF inspect = "success" THEN [kind |-> "info", ports |-> ports]
    ELSE [kind |-> "error"]

\* the overall verdict leaves one of the four checks out
network_isolated_without_ports(results) ==
    /\ results.internet_blocked
    /\ results.internal_access_blocked
    /\ results.dns_blocked

\* the overall verdict (lines 57-62)
network_isolated(results) ==
    /\ results.internet_blocked
    /\ results.internal_access_blocked
    /\ results.dns_blocked
    /\ results.port_exposure_safe

NotRunningText == << "Container not running or doesn't exist" >>

IncompleteText == << "Network isolation is INCOMPLETE - SECURITY RISK!" >>

\* validate_network_isolation is entered; the container publishes some ports
AuditCall ==
    /\ audit.pc \in {"idle", "returned"}
    /\ \E ports \in SUBSET PublishablePorts :
         audit' = [pc |-> "container", ports |-> ports, results |-> NewReport]
    /\ UNCHANGED << chanVars, workerVars, ctlVars, engVars, dvVars, procVars, cliVars >>

\* lines 35-38
AuditContainer ==
    /\ audit.pc = "container"
    /\ \E ps \in ContainerStates :
         IF ~_is_container_running(ps)
         THEN audit' = [audit EXCEPT !.pc = "returned",
                          !.results.violations = Append(@, NotRunningText)]
         ELSE audit' = [audit EXCEPT !.pc = "internet"]
    /\ UNCHANGED << chanVars, workerVars, ctlVars, engVars, dvVars, procVars, cliVars >>

\* line 41
AuditInternet ==
    /\ audit.pc = "internet"
    /\ \E runs \in ProbeRuns :
         audit' = [audit EXCEPT !.pc = "internal",
                     !.results.internet_blocked = _test_internet_blocked(runs)]
    /\ UNCHANGED << chanVars, workerVars, ctlVars, engVars, dvVars, procVars, cliVars >>

\* line 44
AuditInternal ==
    /\ audit.pc = "internal"
    /\ \E runs \in ProbeRuns :
         audit' = [audit EXCEPT !.pc = "dns",
                     !.results.internal_access_blocked =
                         _test_internal_network_blocked(runs)]
    /\ UNCHANGED << chanVars, workerVars, ctlVars, engVars, dvVars, procVars, cliVars >>

\* line 47
AuditDns ==
    /\ audit.pc = "dns"
    /\ \E runs \in ProbeRuns :
         audit' = [audit EXCEPT !.pc = "ports",
                     !.results.dns_blocked = _test_dns_blocked(runs)]
    /\ UNCHANGED << chanVars, workerVars, ctlVars, engVars, dvVars, procVars, cliVars >>

\* line 50
AuditPorts ==
    /\ audit.pc = "ports"
    /\ \E docker_port \in {"success", "error"} :
         audit' = [audit EXCEPT !.pc = "verdict",
                     !.results.port_exposure_safe =
                         _test_port_exposure_safe(docker_port, audit.ports)]
    /\ UNCHANGED << chanVars, workerVars, ctlVars, engVars, dvVars, procVars, cliVars >>

\* lines 53-70: network information, overall verdict, the violation entry.
\* Every probe catches its own exceptions, so the handler of line 67 has
\* nothing to catch.
AuditVerdict ==
    /\ audit.pc = "verdict"
    /\ \E inspect \in {"success", "error"} :
         LET isolated == network_isolated(audit.results)
         IN audit' = [audit EXCEPT !.pc = "returned",
                        !.results.network_info =
                            _get_network_info(inspect, audit.ports),
                        !.results.network_isolated = isolated,
                        !.results.violations =
                            IF ~isolated THEN Append(@, IncompleteText)
                            ELSE @]
    /\ UNCHANGED << chanVars, workerVars, ctlVars, engVars, dvVars, procVars, cliVars >>

NextAudit ==
    \/ AuditCall
    \/ AuditContainer
    \/ AuditInternet
    \/ AuditInternal
    \/ AuditDns
    \/ AuditPorts
    \/ AuditVerdict

SpecAudit == Init /\ [][NextAudit]_vars

\* ------------------------------------------------ run_subprocess_secure
\* The child and what it starts.  Popen puts the child into a session and
\* a process group of its own (start_new_session=True); what the child forks
\* is in that group until it leaves it (setsid, setpgid).
NumHelpers == 2

Helpers == 1..NumHelpers

\* self.max_execution_time (seconds)
max_execution_time == 30

\* the timeouts a command can ask for
ProcTimeouts == {5, 30, 90}

\* communicate(timeout=min(timeout, self.max_execution_time))
WaitBound(timeout) == Min(timeout, max_execution_time)

\* process.kill() alone: the members of the group other than the child stay
kill_child_only(group) == group

\* os.killpg(os.getpgid(process.pid), signal.SIGKILL): the members of the
\* group that are alive afterwards
killpg(group) == {}

\* some process still holds the write end of the pipes communicate reads
PipesOpen == proc.child \/ proc.group # {} \/ proc.left # {}

\* Popen, lines 235-244
ProcSpawn ==
    /\ proc.pc \in {"idle", "exited", "timeout"}
    /\ \E t \in ProcTimeouts :
         proc' = [pc |-> "communicate", timeout |-> t, waited |-> 0, child |-> TRUE,
                  group |-> {}, left |-> {}, killed |-> {}]
    /\ UNCHANGED << chanVars, workerVars, ctlVars, engVars, dvVars, auditVars, cliVars >>

\* a process of the group forks
HelperForks(h) ==
    /\ proc.pc \in {"communicate", "expired"}
    /\ proc.child \/ proc.group # {}
    /\ h \notin proc.group \cup proc.left
    /\ proc' = [proc EXCEPT !.group = @ \cup {h}]
    /\ UNCHANGED << chanVars, workerVars, ctlVars, engVars, dvVars, auditVars, cliVars >>

\* a forked process makes a session or group of its own
HelperLeaves(h) ==
    /\ proc.pc \in {"communicate", "expired"}
    /\ h \in proc.group
    /\ proc' = [proc EXCEPT !.group = @ \ {h}, !.left = @ \cup {h}]
    /\ UNCHANGED << chanVars, workerVars, ctlVars, engVars, dvVars, auditVars, cliVars >>

\* the child exits by itself (it stays unreaped until communicate or wait)
ChildExitsAlone ==
    /\ proc.pc \in {"communicate", "expired"}
    /\ proc.child
    /\ proc' = [proc EXCEPT !.child = FALSE]
    /\ UNCHANGED << chanVars, workerVars, ctlVars, engVars, dvVars, auditVars, cliVars >>

\* a forked process exits by itself; one that has left the group can outlive
\* the timeout
HelperExits(h) ==
    /\ proc.pc \in {"communicate", "expired", "timeout"}
    /\ h \in proc.group \cup proc.left
    /\ proc' = [proc EXCEPT !.group = @ \ {h}, !.left = @ \ {h}]
    /\ UNCHANGED << chanVars, workerVars, ctlVars, engVars, dvVars, auditVars, cliVars >>

\* communicate returns, lines 248-254: both pipes are at end of file and the
\* child has exited
CommunicateReturns ==
    /\ proc.pc = "communicate"
    /\ ~PipesOpen
    /\ proc' = [proc EXCEPT !.pc = "exited"]
    /\ UNCHANGED << chanVars, workerVars, ctlVars, engVars, dvVars, auditVars, cliVars >>

\* communicate raises TimeoutExpired, line 256
WaitExpires ==
    /\ proc.pc = "communicate"
    /\ PipesOpen
    /\ proc' = [proc EXCEPT !.pc = "expired", !.waited = WaitBound(proc.timeout)]
    /\ UNCHANGED << chanVars, workerVars, ctlVars, engVars, dvVars, auditVars, cliVars >>

\* lines 258-266: killpg on the group of the child, process.kill(),
\* process.wait(), then the timeout outcome
KillAndReport ==
    /\ proc.pc = "expired"
    /\ proc' = [proc EXCEPT !.pc = "timeout", !.child = FALSE,
                            !.group = killpg(proc.group),
                            !.killed = proc.group \ killpg(proc.group)]
    /\ UNCHANGED << chanVars, workerVars, ctlVars, engVars, dvVars, auditVars, cliVars >>

NextProc ==
    \/ ProcSpawn
    \/ \E h \in Helpers : HelperForks(h)
    \/ \E h \in Helpers : HelperLeaves(h)
    \/ ChildExitsAlone
    \/ \E h \in Helpers : HelperExits(h)
    \/ CommunicateReturns
    \/ WaitExpires
    \/ KillAndReport

SpecProc == Init /\ [][NextProc]_vars


\* ------------------------------------------- enforce_network_isolation
\* the lockdown directives, lines 243-255
isolation_commands ==
    << "iptables -A OUTPUT -j DROP",
       "iptables -A INPUT ! -i lo -j DROP",
       "iptables -A FORWARD -j DROP",
       "ip link set eth0 down 2>/dev/null || true" >>

\* what docker exec --privileged can do with one directive: it runs and
\* exits 0, it exits non-zero (no privilege, no iptables, no such container),
\* it runs out of time, or docker cannot be started (subprocess.run raises)
DirectiveOutcomes == {"applied", "failed", "timeout", "error"}

\* line 266: the value returned after the loop.  The return code of a
\* directive is not looked at and the bare except of line 262 swallows what
\* subprocess.run raises, so nothing reaches the except clause of line 268.
enforce_result(outcomes) == TRUE

EnforceCall ==
    /\ enf.pc \in {"idle", "returned"}
    /\ enf' = [pc |-> "loop", outcomes |-> << >>, returned |-> FALSE]
    /\ UNCHANGED << chanVars, workerVars, ctlVars, engVars, dvVars, auditVars, procVars,
                    cli >>

\* one pass of the loop over isolation_commands
EnforceDirective ==
    /\ enf.pc = "loop"
    /\ Len(enf.outcomes) < Len(isolation_commands)
    /\ \E o \in DirectiveOutcomes :
         enf' = [enf EXCEPT !.outcomes = Append(@, o)]
    /\ UNCHANGED << chanVars, workerVars, ctlVars, engVars, dvVars, auditVars, procVars,
                    cli >>

EnforceReturn ==
    /\ enf.pc = "loop"
    /\ Len(enf.outcomes) = Len(isolation_commands)
    /\ enf' = [enf EXCEPT !.pc = "returned", !.returned = enforce_result(enf.outcomes)]
    /\ UNCHANGED << chanVars, workerVars, ctlVars, engVars, dvVars, auditVars, procVars,
                    cli >>

NextEnforce == EnforceCall \/ EnforceDirective \/ EnforceReturn

SpecEnforce == Init /\ [][NextEnforce]_vars


\* ------------------------------------------- the audit command line
\* lines 285-288 of generate_security_report: the overall status line of
\* the report, taken from the results of the call made at line 274
generate_security_report(results) ==
    IF results.network_isolated THEN "SECURE" ELSE "FAILED"

\* lines 335-338 of the command line: the exit code, taken from results
exit_code(results) == IF ~results.network_isolated THEN 1 ELSE 0

\* line 331 enters generate_security_report, whose first statement (line
\* 274) is a call of validate_network_isolation
CliReport ==
    /\ cli.pc = "start"
    /\ audit.pc = "idle"
    /\ \E ports \in SUBSET PublishablePorts :
         audit' = [pc |-> "container", ports |-> ports, results |-> NewReport]
    /\ cli' = [cli EXCEPT !.pc = "report"]
    /\ UNCHANGED << chanVars, workerVars, ctlVars, engVars, dvVars, procVars, enf >>

\* lines 276-324 and the print of line 331
CliPrint ==
    /\ cli.pc = "report"
    /\ audit.pc = "returned"
    /\ cli' = [cli EXCEPT !.pc = "printed",
                 !.printed = generate_security_report(audit.results)]
    /\ UNCHANGED << chanVars, workerVars, ctlVars, engVars, dvVars, auditVars, procVars,
                    enf >>

\* line 334: validate_network_isolation is called again, on the container as
\* it is by now
CliValidate ==
    /\ cli.pc = "printed"
    /\ \E ports \in SUBSET PublishablePorts :
         audit' = [pc |-> "container", ports |-> ports, results |-> NewReport]
    /\ cli' = [cli EXCEPT !.pc = "validate"]
    /\ UNCHANGED << chanVars, workerVars, ctlVars, engVars, dvVars, procVars, enf >>

\* lines 335-338
CliExit ==
    /\ cli.pc = "validate"
    /\ audit.pc = "returned"
    /\ cli' = [cli EXCEPT !.pc = "exited", !.exit_code = exit_code(audit.results)]
    /\ UNCHANGED << chanVars, workerVars, ctlVars, engVars, dvVars, auditVars, procVars,
                    enf >>

NextCli ==
    \/ CliReport
    \/ CliPrint
    \/ CliValidate
    \/ CliExit
    \/ AuditContainer
    \/ AuditInternet
    \/ AuditInternal
    \/ AuditDns
    \/ AuditPorts
    \/ AuditVerdict

SpecCli == Init /\ [][NextCli]_vars


\* ============================================================ properties
\* a violation list with a finding that blocks execution
HasBlocking(vs) == \E i \in DOMAIN vs : vs[i].severity \in {"CRITICAL", "HIGH"}

\* the code fails the sanity check or the validator reports a CRITICAL or HIGH
\* violation for it
Rejected(code, language) ==
    \/ code.blank
    \/ code.len > MaxCodeLen
    \/ HasBlocking(validate_code_ultra_secure(code, language))

\* C1: a command placed in the inbox is executed at most once by the worker
\* daemon, also when the daemon crashes and is restarted at any point of its
\* poll loop.
C1_ExecutedAtMostOnce == \A i \in Ids : ran[Daemon][i] <= 1

\* C2: when several daemons poll the same inbox and outbox, no command file
\* is executed by more than one of them.
C2_NoDoubleProcessing ==
    \A i \in Ids : Cardinality({w \in Workers : ran[w][i] > 0}) <= 1

\* C3: for code that fails the sanity check or yields a CRITICAL or HIGH
\* violation, neither SecureFileExecutor.execute_secure nor
\* CodeExecutor.execute_secure creates a scratch file or spawns a child; the
\* call can only end by raising SecurityError.
C3_NoExecutionOfRejectedCode ==
    /\ (sfe.pc # "idle" /\ Rejected(sfe.cmd.code, sfe.cmd.language)) =>
          /\ ~sfe.made
          /\ ~sfe.spawned
          /\ sfe.calls \notin sfe.files
          /\ sfe.pc \in {"validate", "raised"}
          /\ sfe.pc = "raised" => sfe.out.exc.type = "SecurityError"
    /\ (ce.pc # "idle" /\ Rejected(ce.code, ce.language)) =>
          /\ ~ce.made
          /\ ~ce.spawned
          /\ ce.calls \notin ce.files
          /\ ce.pc \in {"validate", "raised"}
          /\ ce.pc = "raised" => ce.out.exc.type = "SecurityError"

\* Both engines have refused a command: the worker's engine one whose only
\* finding is HIGH, the direct engine one that is too long.
C3_Witness ==
    /\ sfe.pc = "raised"
    /\ sfe.cmd.code = CodeTry
    /\ sfe.cmd.language = "python"
    /\ Rejected(sfe.cmd.code, sfe.cmd.language)
    /\ ce.pc = "raised"
    /\ ce.code = CodeTooLong
    /\ Rejected(ce.code, ce.language)

\* C4: validate_code rejects a violation list with SecurityError if and only
\* if the list holds at least one CRITICAL or HIGH violation; an empty list
\* and a list of MEDIUM violations only are accepted.
C4_DecisionRule ==
    dvpc = "decided" =>
        /\ (dvout # NoExc) <=> HasBlocking(dvin)
        /\ dvout # NoExc => dvout.type = "SecurityError"

\* The rule has decided on a list with HIGH and MEDIUM findings and no
\* CRITICAL one, and has rejected it.
C4_Witness ==
    /\ dvpc = "decided"
    /\ \E i \in DOMAIN dvin : dvin[i].severity = "HIGH"
    /\ \E i \in DOMAIN dvin : dvin[i].severity = "MEDIUM"
    /\ \A i \in DOMAIN dvin : dvin[i].severity # "CRITICAL"
    /\ dvout.type = "SecurityError"

\* C5: when the child of an accepted command was still running at the wait
\* bound, the result file the daemon writes has a negative exit_code and a
\* non-empty stderr.
C5_TimeoutResultIsNegative ==
    \A i \in Ids :
        (/\ wpc[Daemon] = "w_chmod"
         /\ wcur[Daemon] = i
         /\ wcmd[Daemon] # NoCmd
         /\ wout[Daemon] = Raised(TimeoutFailure(wcmd[Daemon].timeout))
         /\ outbox[i].exists
         /\ outbox[i].complete
         /\ outbox[i].data = ResultData(Daemon))
        => /\ outbox[i].data.exit_code < 0
           /\ outbox[i].data.stderr # << >>

\* C6: executing accepted code never raises: a call for code that validation
\* accepts ends by returning an ExecutionResult, and when no child ran its
\* exit_code is negative.
C6_AcceptedCodeNeverRaises ==
    /\ sfe.pc = "raised" => Rejected(sfe.cmd.code, sfe.cmd.language)
    /\ ce.pc = "raised" => Rejected(ce.code, ce.language)
    /\ (sfe.pc = "returned" /\ ~sfe.spawned) => sfe.out.exit_code < 0
    /\ (ce.pc = "returned" /\ ~ce.spawned) => ce.out.exit_code < 0

\* C7: when execute_code has returned a result for a command, the command
\* file of that command is not in the inbox.
C7_CommandFileGoneAtReturn ==
    \A c \in Ids : cpc[c] = "returned" => ~inbox[c].exists

\* C8: no result file stays in the outbox: a result file exists only while
\* the controller that submitted the command is still going to read it
\* (nothing but that controller's wait_for_result removes a result file).
C8_NoResultFileLeftBehind ==
    \A c \in Ids : outbox[c].exists => cpc[c] \notin {"returned", "raised"}

\* C9: when no result appeared within timeout + 5 seconds, execute_code
\* raises an error that its caller tells apart from other failures (the
\* /execute route answers it with 408, not with the 500 of other failures)
\* and the command file is not in the inbox.
C9_TimeoutToldApart ==
    \A c \in Ids :
        (cpc[c] = "raised" /\ cret[c] = Raised(ClientTimeout(c)))
        => /\ cret[c].exc.type = "TimeoutError"
           /\ HandlerStatus(cret[c]) = Http408
           /\ ~inbox[c].exists

\* C10: when a call of either engine has ended, the scratch file of that call
\* does not exist.
C10_ScratchFileRemoved ==
    /\ sfe.pc \in {"returned", "raised"} => sfe.calls \notin sfe.files
    /\ ce.pc \in {"returned", "raised"} => ce.calls \notin ce.files

\* what write_error_result puts on an error result whatever the message: the
\* security_error flag, the exit_code and the prefix of stderr
ErrorTag(data) == << data.security_error, data.exit_code, Head(data.stderr) >>

\* the report of a command file that json.load could not parse
IsMalformedReport(data) == data.stderr = << "SECURITY ERROR: " >> \o JSONDecode.msg

\* the report of a command that validate_code rejected
IsRejectionReport(data) ==
    /\ Len(data.stderr) >= 2
    /\ data.stderr[2] = "SECURITY BLOCK: "

\* C11: the error result written for a malformed command file is tagged
\* differently (security_error flag, stderr prefix or exit_code) from the
\* error result written for a command that validation rejected.
C11_MalformedTaggedApart ==
    \A i, j \in Ids :
        (/\ outbox[i].exists /\ outbox[i].complete
         /\ outbox[j].exists /\ outbox[j].complete
         /\ IsMalformedReport(outbox[i].data)
         /\ IsRejectionReport(outbox[j].data))
        => ErrorTag(outbox[i].data) # ErrorTag(outbox[j].data)

HasCritical(vs) == \E i \in DOMAIN vs : vs[i].severity = "CRITICAL"

\* a node that names a process-spawn, reflection or raw-file-open primitive
PrimitiveNode(node) ==
    \/ /\ node.kind \in {"Import", "ImportFrom", "ImportStar"}
       /\ node.name \in {"os", "subprocess"}
    \/ /\ node.kind \in {"Name", "Call"}
       /\ node.name \in {"eval", "exec", "compile", "__import__", "getattr", "open"}
    \/ /\ node.kind \in {"Attribute", "MethodCall", "Subscript"}
       /\ node.name \in {"__class__", "__bases__", "__subclasses__", "__mro__",
                         "__globals__", "__builtins__"}

HasPrimitive(code) == \E i \in DOMAIN code.nodes : PrimitiveNode(code.nodes[i])

\* C12: for every Python sample that contains a process-spawn, reflection or
\* raw-file-open primitive, also through an alias, validate_code_ultra_secure
\* returns at least one CRITICAL violation and validate_code rejects it.
C12_PrimitivesRejected ==
    (/\ dvpc = "decided"
     /\ dvcall.language = "python"
     /\ dvcall.code.syntax_ok
     /\ HasPrimitive(dvcall.code))
    => /\ HasCritical(validate_code_ultra_secure(dvcall.code, "python"))
       /\ dvout.type = "SecurityError"

\* a node of code that only imports allow-listed modules, calls allow-listed
\* builtins and methods without underscores, and names ordinary variables
BenignNode(node) ==
    \/ /\ node.kind \in {"Import", "ImportFrom"}
       /\ node.name \in {"math", "random", "datetime", "json", "numpy", "pandas"}
    \/ /\ node.kind = "Call"
       /\ node.name \in allowed_builtins
    \/ /\ node.kind = "Name"
       /\ node.name \notin builtin_names \ allowed_builtins
    \/ /\ node.kind \in {"MethodCall", "Attribute"}
       /\ ~IsDunder(node.name)
       /\ node.name \notin dangerous_attributes

\* a sample of allow-listed imports, arithmetic and string operations; the
\* content of its string literals is free (it shows in net_hits only)
Benign(code) ==
    /\ ~code.blank
    /\ code.len <= MaxCodeLen
    /\ code.syntax_ok
    /\ \A i \in DOMAIN code.nodes : BenignNode(code.nodes[i])

\* C13: for every Python sample that uses only allow-listed imports and basic
\* arithmetic and string operations, with string literals of any content,
\* validate_code_ultra_secure returns no CRITICAL violation and validate_code
\* accepts the sample.
C13_BenignAccepted ==
    (/\ dvpc = "decided"
     /\ dvcall.language = "python"
     /\ Benign(dvcall.code))
    => /\ ~HasCritical(validate_code_ultra_secure(dvcall.code, "python"))
       /\ dvout = NoExc

\* C14: when validate_code rejects code, the reason it raises lists every
\* CRITICAL and every HIGH violation the validator found, also when both
\* severities are present.
C14_ReasonListsAllBlocking ==
    (dvpc = "decided" /\ dvout.type = "SecurityError" /\ dvcall.analysed)
    => /\ \A i \in DOMAIN dvin :
             dvin[i].severity \in {"CRITICAL", "HIGH"}
                => dvin[i].type \in Range(dvout.msg)
       /\ Len(dvout.msg) - 1
             = Cardinality({i \in DOMAIN dvin : dvin[i].severity \in {"CRITICAL", "HIGH"}})

\* C15: in every report validate_network_isolation returns, network_isolated
\* is the conjunction of the four sub-checks, and the violations list is
\* empty exactly when network_isolated is true.
C15_ReportConsistent ==
    audit.pc = "returned" =>
        /\ audit.results.network_isolated <=>
              (/\ audit.results.internet_blocked
               /\ audit.results.internal_access_blocked
               /\ audit.results.dns_blocked
               /\ audit.results.port_exposure_safe)
        /\ (audit.results.violations = << >>) <=>
              audit.results.network_isolated

\* an audit of a running container whose four checks all passed
C15_Witness ==
    /\ audit.pc = "returned"
    /\ audit.results.network_isolated
    /\ audit.results.violations = << >>
    /\ audit.results.network_info # NoInfo

\* a violation entry that names the port
NamesPort(entry, port) == port \in Range(entry)

\* C16: when the audited container publishes a port, the report has
\* network_isolated false and a violations entry that names the port.
C16_ExposedPortNamed ==
    (audit.pc = "returned" /\ audit.results.network_info # NoInfo
        /\ audit.ports # {}) =>
        /\ ~audit.results.network_isolated
        /\ \E i \in DOMAIN audit.results.violations :
              \E port \in audit.ports :
                 NamesPort(audit.results.violations[i], port)

\* C17: Python code that fails to parse is never accepted: the parse failure
\* is in the validator's list as a violation and validate_code rejects the
\* code with a SecurityError.
C17_ParseFailureReported ==
    (dvpc = "decided" /\ dvcall.language = "python" /\ dvcall.analysed
        /\ ~dvcall.code.syntax_ok) =>
        /\ dvout.type = "SecurityError"
        /\ \E i \in DOMAIN dvin : dvin[i].type = "SYNTAX_ERROR"

\* the code fails the input-sanity checks of validate_code
FailsSanity(code) == code.blank \/ code.len > MaxCodeLen

\* C18: validate_code rejects blank code and code longer than MaxCodeLen in
\* its sanity checks, before validate_code_ultra_secure is run on it; code of
\* exactly MaxCodeLen characters passes the sanity checks.
C18_SanityBeforeValidator ==
    /\ FailsSanity(dvcall.code) => dvpc \notin {"validator", "validated"}
    /\ (dvpc = "decided" /\ FailsSanity(dvcall.code)) =>
          dvout.type = "SecurityError" /\ ~dvcall.analysed
    /\ (dvpc = "decided" /\ ~dvcall.code.blank
          /\ dvcall.code.len = MaxCodeLen) => dvcall.analysed

\* import os padded beyond the cap is rejected for its length, the validator
\* never having looked at it
C18_Witness ==
    /\ dvpc = "decided"
    /\ dvcall.code = CodeTooLongImportOs
    /\ dvout = Raise("SecurityError", << "Code too long - maximum 5KB allowed" >>)
    /\ ~dvcall.analysed

C21_GroupDeadAtTimeout ==
    proc.pc = "timeout" =>
        /\ proc.waited = Min(proc.timeout, max_execution_time)
        /\ ~proc.child
        /\ proc.group = {}

\* a timeout, with a request beyond the ceiling, at which the processes the
\* child had forked were all in its group and were killed with it
C21_Witness ==
    /\ proc.pc = "timeout"
    /\ proc.timeout > max_execution_time
    /\ proc.waited = max_execution_time
    /\ proc.killed = Helpers
    /\ proc.group = {}
    /\ ~proc.child

\* the cap of stdout and stderr, in characters
OutputCap == 10000

\* the characters of a text given by its fragments
RECURSIVE Chars(_)
Chars(text) ==
    IF text = << >> THEN 0
    ELSE IF Len(text) = 1 THEN Len(text[1])
    ELSE LET half == Len(text) \div 2
         IN Chars(SubSeq(text, 1, half)) + Chars(SubSeq(text, half + 1, Len(text)))

\* C22: whatever execute_secure returned or raised, the result the worker
\* writes for it has at most OutputCap characters of stdout and of stderr.
C22_OutputCapped ==
    sfe.pc \in {"returned", "raised"} =>
        LET data == ResultDataOf(IF sfe.pc = "returned" THEN 0 ELSE 1, sfe.out)
        IN Chars(data.stdout) <= OutputCap /\ Chars(data.stderr) <= OutputCap

\* C23: every command file and every result file that exists is accessible
\* to its owner only.
C23_FilesOwnerOnly ==
    \A c \in Ids :
       /\ inbox[c].exists => inbox[c].mode = Mode600
       /\ outbox[c].exists => outbox[c].mode = Mode600

\* C24: enforce_network_isolation returns True only when every lockdown
\* directive was run in the container and succeeded.
C24_TrueOnlyWhenApplied ==
    (enf.pc = "returned" /\ enf.returned) =>
        \A i \in DOMAIN enf.outcomes : enf.outcomes[i] = "applied"

\* C25: between calls of execute_secure the limits of the process that runs
\* the executor are those it started with.
C25_DaemonLimitsUnchanged ==
    sfe.pc \in {"idle", "returned", "raised"} => sfe.limits = SFE_new.limits

\* C26: execute_code fails with its timeout only when no poll of
\* wait_for_result has found a result file for the command.
C26_TimeoutOnlyWithoutResult ==
    \A c \in Ids :
       (cpc[c] = "raised" /\ cret[c] = Raised(ClientTimeout(c))) => ~cseen[c]

\* C27: the daemon reads every command file as the command the controller
\* wrote, and never finds a payload it cannot parse.
C27_CommandReadWhole ==
    /\ wout[Daemon] # Raised(JSONDecode)
    /\ wpc[Daemon] = "execute" => wcmd[Daemon] = ClientCommand(wcur[Daemon])

\* the language is neither of the two the validator analyses
OtherLanguage(language) == language \notin {"python", "javascript"}

\* C28: a command in a language other than python and javascript is rejected
\* by validation in both engines, with no scratch file made and no child
\* spawned for it.
C28_OtherLanguagesRejected ==
    /\ (sfe.pc # "idle" /\ OtherLanguage(sfe.cmd.language)) =>
          /\ ~sfe.made /\ ~sfe.spawned
          /\ sfe.pc \in {"validate", "raised"}
          /\ sfe.pc = "raised" => sfe.out.exc.type = "SecurityError"
    /\ (ce.pc # "idle" /\ OtherLanguage(ce.language)) =>
          /\ ~ce.made /\ ~ce.spawned
          /\ ce.pc \in {"validate", "raised"}
          /\ ce.pc = "raised" => ce.out.exc.type = "SecurityError"

\* print(1+1) sent as bash, for which the engine has a command line, is
\* rejected as an unsupported language
C28_Witness ==
    /\ sfe.pc = "raised"
    /\ sfe.cmd.language = "bash"
    /\ sfe.cmd.code = CodePrint
    /\ get_execution_command("bash") = NoExc
    /\ sfe.out.exc = Raise("SecurityError",
                           << "SECURITY BLOCK: ", "CRITICAL SECURITY VIOLATIONS DETECTED:",
                              "UNSUPPORTED_LANGUAGE" >>)
    /\ ~sfe.spawned

\* C29: between executions neither engine holds a descriptor it opened for
\* a scratch file.
C29_NoDescriptorLeft ==
    /\ sfe.pc \in {"idle", "returned", "raised"} => sfe.fds = 0
    /\ ce.pc \in {"idle", "returned", "raised"} => ce.fds = 0

\* C30: when the audit command line has exited, its exit code agrees with
\* the report it printed: 0 only after a report that says SECURE, 1 only
\* after a report that says FAILED.
C30_ExitCodeAgreesWithReport ==
    cli.pc = "exited" =>
        /\ cli.exit_code = 0 => cli.printed = "SECURE"
        /\ cli.exit_code = 1 => cli.printed = "FAILED"

====
